---- MODULE Spec2Model ----
(***************************************************************************)
(* One-shot channels of src/src/ch5/channel.rs: the runtime-checked        *)
(* Channel (unsafe_channel), the Arc-backed Sender/Receiver (safe_channel),*)
(* the borrowed split pair (safe_channel_without_arc) and the directed-wake*)
(* split pair (ch5_6).  Every atomic access of the code (swap, store,      *)
(* load), every access of the UnsafeCell and every park/unpark is one step.*)
(***************************************************************************)
EXTENDS Integers, FiniteSets, Sequences, TLC

\* ---------------------------------------------------------------- bounds
NumThreads == 2
NumValues == 2
MaxRounds == 2
MaxLines == 3
ItemsPerThread == 2

Threads == 1..NumThreads
Values == 1..NumValues

\* The four channel modules of channel.rs.
Unsafe == "unsafe_channel"
Arc == "safe_channel"
Borrowed == "safe_channel_without_arc"
Directed == "ch5_6"
Variants == {Unsafe, Arc, Borrowed, Directed}
Owned == {Arc, Borrowed, Directed}
Splittable == {Borrowed, Directed}

\* MaybeUninit::uninit(): the cell holds no T.  Also the outcome "some bit
\* pattern that is none of the payloads" of reading such a cell.
Uninit == 0

\* The thread that owns the Channel value: it calls split and its scope ends
\* the Channel's life (thread::scope joins the others first).
Main == 1

VARIABLES
    variant,    \* which module's Channel this is
    chan,       \* "live" | "dropped": the Channel value exists
    message,    \* contents of the UnsafeCell<MaybeUninit<T>>
    slot,       \* "Empty" | "Written" | "Consumed": what the cell holds (ghost)
    in_use,     \* AtomicBool in_use (unsafe_channel only)
    ready,      \* AtomicBool ready
    strong,     \* Arc strong count (safe_channel only)
    sender,     \* set of threads holding the Sender (empty: moved or dropped)
    receiver,   \* set of threads holding the Receiver
    receiving_thread, \* ch5_6 Sender.receiving_thread
    round,      \* number of split calls so far
    pc,         \* per thread: where it is inside send / receive
    arg,        \* per thread: the message passed to send
    swapped,    \* per thread: what receive's ready.swap returned
    token,      \* per thread: the park token of std::thread
    ret,        \* per thread: how its last call ended (ghost)
    sent,       \* the message of the first slot write of this instance (ghost)
    stored,     \* send's ready store has happened on this instance (ghost)
    taken,      \* a receive's swap has observed ready = true (ghost)
    nWrite,     \* slot writes on this instance (ghost)
    nRead,      \* slot reads on this instance (ghost)
    torn        \* one record per run of Channel::drop (ghost)

\* src/src/ch2/atomic.rs, example1 (stop flag) and example4 (shared counter).
VARIABLES
    STOP,       \* example1: static STOP: AtomicBool
    loop,       \* example1: where the main thread is
    background_thread, \* example1: "spinning" | "exited"
    line,       \* example1: the line the loop read last
    out,        \* example1: what it printed, in order
    num_dome,   \* example4: the AtomicUsize counter
    items,      \* example4: per worker, how many items it has counted
    monitor,    \* example4: where the main thread's loop is
    n           \* example4: the main thread's last load of the counter

stopVars == <<STOP, loop, background_thread, line, out>>
countVars == <<num_dome, items, monitor, n>>
ch2Vars == <<stopVars, countVars>>

chanVars == <<variant, chan, message, slot, in_use, ready, strong, sender,
              receiver, receiving_thread, round, pc, arg, swapped, token, ret,
              sent, stored, taken, nWrite, nRead, torn>>

vars == <<chanVars, ch2Vars>>

memVars == <<message, slot, in_use, ready>>
handleVars == <<sender, receiver, receiving_thread, round>>
ghostVars == <<sent, stored, taken, nWrite, nRead>>

NoRet == [op |-> "none", kind |-> "none", val |-> Uninit, slot |-> "Empty",
          flag |-> FALSE, stored |-> FALSE, taken |-> FALSE]

Ret(o, k, v, f) == [op |-> o, kind |-> k, val |-> v, slot |-> slot,
                    flag |-> f, stored |-> stored, taken |-> taken]

\* No call is in progress: every thread is between calls, has panicked or
\* has run to the end of its closure.
Quiet == \A t \in Threads : pc[t] \in {"idle", "panicked", "exited"}

\* ------------------------------------------------------- construction
\* Channel::new(): an uninitialised cell and both flags false.
new ==
    /\ message' = Uninit
    /\ slot' = "Empty"
    /\ in_use' = FALSE
    /\ ready' = FALSE

\* Init: the state after Channel::new() (unsafe_channel, and the Channel that
\* run3 / run_5_6 own before any split) or after channel() (safe_channel),
\* which hands one Sender and one Receiver to their threads.
ChanInit ==
    /\ variant \in Variants
    /\ chan = "live"
    /\ message = Uninit
    /\ slot = "Empty"
    /\ in_use = FALSE
    /\ ready = FALSE
    /\ strong = IF variant = Arc THEN 2 ELSE 0
    /\ IF variant = Arc
       THEN \E s \in Threads, r \in Threads : sender = {s} /\ receiver = {r}
       ELSE sender = {} /\ receiver = {}
    /\ receiving_thread = Main
    /\ round = 0
    /\ pc = [t \in Threads |-> "idle"]
    /\ arg = [t \in Threads |-> Uninit]
    /\ swapped = [t \in Threads |-> FALSE]
    /\ token = [t \in Threads |-> FALSE]
    /\ ret = [t \in Threads |-> NoRet]
    /\ sent = Uninit
    /\ stored = FALSE
    /\ taken = FALSE
    /\ nWrite = 0
    /\ nRead = 0
    /\ torn = <<>>

\* The examples of ch2 before they are started.
StopIdle ==
    /\ STOP = FALSE
    /\ loop = "off"
    /\ background_thread = "off"
    /\ line = ""
    /\ out = <<>>

CountIdle ==
    /\ num_dome = 0
    /\ items = <<>>
    /\ monitor = "off"
    /\ n = 0

Init == ChanInit /\ StopIdle /\ CountIdle

\* ------------------------------------------------------- Drop for Channel
\* Mutant: Drop runs assume_init_drop without looking at the flag.
DropAlways == TRUE

\* `if *self.ready.get_mut()`: Drop decides by the ready flag alone.
DropDestroys == ready

\* What one run of Channel::drop does to the payload: assume_init_drop is
\* executed once when the flag is set, and the cell's state at that moment
\* is recorded.
DropRecord ==
    [slot |-> slot, ready |-> ready, val |-> message, round |-> round,
     destroyed |-> IF DropDestroys THEN 1 ELSE 0]

drop == torn' = Append(torn, DropRecord)

\* The Channel value goes out of scope (unsafe_channel::run1, run3, run_5_6):
\* no call is in progress and no handle borrows it any more.
Teardown ==
    /\ variant # Arc
    /\ chan = "live"
    /\ Quiet
    /\ sender = {} /\ receiver = {}
    /\ drop
    /\ chan' = "dropped"
    /\ UNCHANGED <<ch2Vars, variant, memVars, strong, handleVars, pc, arg, swapped,
                   token, ret, ghostVars>>

\* Arc<Channel<T>>: a handle's drop decrements the strong count, and the last
\* one runs Channel::drop.
ArcRelease ==
    /\ strong' = strong - 1
    /\ IF strong = 1
       THEN drop /\ chan' = "dropped"
       ELSE UNCHANGED <<torn, chan>>

\* split(&mut self): `*self = Self::new()` drops the old Channel value, then
\* a fresh pair borrows the new one.  The exclusive borrow means no earlier
\* handle is alive and no call is in progress.  The Receiver of ch5_6 is
\* !Send and stays on the splitting thread, which the Sender captures.
split ==
    /\ variant \in Splittable
    /\ chan = "live"
    /\ round < MaxRounds
    /\ Quiet /\ pc[Main] = "idle"
    /\ sender = {} /\ receiver = {}
    /\ drop
    /\ new
    /\ round' = round + 1
    /\ \E s \in Threads : sender' = {s}
    /\ IF variant = Directed
       THEN receiver' = {Main}
       ELSE \E r \in Threads : receiver' = {r}
    /\ receiving_thread' = Main
    /\ ret' = [t \in Threads |-> NoRet]
    /\ sent' = Uninit /\ stored' = FALSE /\ taken' = FALSE
    /\ nWrite' = 0 /\ nRead' = 0
    /\ UNCHANGED <<ch2Vars, variant, chan, strong, pc, arg, swapped, token>>

\* ------------------------------------------------------------------ send
\* How a call that returned or panicked leaves its thread.
Done(t, r) ==
    /\ pc' = [pc EXCEPT ![t] = IF r.kind = "panic" THEN "panicked" ELSE "idle"]
    /\ ret' = [ret EXCEPT ![t] = r]

\* Mutant: send does not test the result of its claim.
ClaimNeverFails == FALSE

\* unsafe_channel: `self.in_use.swap(true, Relaxed)` returned true.
ClaimFails == in_use

\* unsafe_channel::Channel::send, first step: claim the in-use marker, and
\* panic when it was already claimed.
send_claim(t, v) ==
    /\ variant = Unsafe
    /\ chan = "live"
    /\ pc[t] = "idle"
    /\ in_use' = TRUE
    /\ IF ClaimFails
       THEN /\ Done(t, Ret("send", "panic", Uninit, FALSE))
            /\ UNCHANGED arg
       ELSE /\ pc' = [pc EXCEPT ![t] = "send_write"]
            /\ arg' = [arg EXCEPT ![t] = v]
            /\ UNCHANGED ret
    /\ UNCHANGED <<ch2Vars, variant, chan, message, slot, ready, strong, handleVars,
                   swapped, token, ghostVars, torn>>

\* Sender::send(self, message) of the three ownership-typed modules: the call
\* moves the Sender in, so no handle is left to send with.
send_call(t, v) ==
    /\ variant \in Owned
    /\ chan = "live"
    /\ pc[t] = "idle"
    /\ t \in sender
    /\ sender' = {}
    /\ pc' = [pc EXCEPT ![t] = "send_write"]
    /\ arg' = [arg EXCEPT ![t] = v]
    /\ UNCHANGED <<ch2Vars, variant, chan, memVars, strong, receiver, receiving_thread,
                   round, swapped, token, ret, ghostVars, torn>>

\* Mutant: ch5_6 send without its ready store: it unparks right after the
\* write.
send_write_skips_store(t) ==
    /\ pc[t] = "send_write"
    /\ message' = arg[t]
    /\ slot' = "Written"
    /\ sent' = IF nWrite = 0 THEN arg[t] ELSE sent
    /\ nWrite' = nWrite + 1
    /\ pc' = [pc EXCEPT ![t] = IF variant = Directed THEN "send_unpark"
                                                     ELSE "send_store"]
    /\ UNCHANGED <<ch2Vars, variant, chan, in_use, ready, strong, handleVars, arg,
                   swapped, token, ret, stored, taken, nRead, torn>>

\* `(*self.message.get()).write(message)`: the cell is overwritten, whatever
\* it held.
send_write(t) ==
    /\ pc[t] = "send_write"
    /\ message' = arg[t]
    /\ slot' = "Written"
    /\ sent' = IF nWrite = 0 THEN arg[t] ELSE sent
    /\ nWrite' = nWrite + 1
    /\ pc' = [pc EXCEPT ![t] = "send_store"]
    /\ UNCHANGED <<ch2Vars, variant, chan, in_use, ready, strong, handleVars, arg,
                   swapped, token, ret, stored, taken, nRead, torn>>

\* The value of `self.ready.store(true, Release)`.
ReadyStored == TRUE

\* Where send goes after its ready store: unsafe_channel and
\* safe_channel_without_arc return, safe_channel drops its Arc, ch5_6 unparks.
AfterStore ==
    CASE variant = Arc -> "send_drop"
      [] variant = Directed -> "send_unpark"
      [] OTHER -> "idle"

send_store(t) ==
    /\ pc[t] = "send_store"
    /\ ready' = ReadyStored
    /\ stored' = TRUE
    /\ pc' = [pc EXCEPT ![t] = AfterStore]
    /\ ret' = [ret EXCEPT ![t] = IF AfterStore = "idle"
                                 THEN Ret("send", "ok", arg[t], FALSE)
                                 ELSE @]
    /\ UNCHANGED <<ch2Vars, variant, chan, message, slot, in_use, strong, handleVars,
                   arg, swapped, token, sent, taken, nWrite, nRead, torn>>

\* ch5_6: `self.receiving_thread.unpark()` makes the park token of that
\* thread available.
send_unpark(t) ==
    /\ pc[t] = "send_unpark"
    /\ token' = [token EXCEPT ![receiving_thread] = TRUE]
    /\ Done(t, Ret("send", "ok", arg[t], FALSE))
    /\ UNCHANGED <<ch2Vars, variant, chan, memVars, strong, handleVars, arg, swapped,
                   ghostVars, torn>>

\* safe_channel: send returns and its `self` (the Arc) is dropped.
send_drop(t) ==
    /\ pc[t] = "send_drop"
    /\ ArcRelease
    /\ Done(t, Ret("send", "ok", arg[t], FALSE))
    /\ UNCHANGED <<ch2Vars, variant, memVars, handleVars, arg, swapped, token,
                   ghostVars>>

\* A Sender that goes out of scope unused.
drop_sender(t) ==
    /\ variant \in Owned
    /\ chan = "live"
    /\ pc[t] = "idle"
    /\ t \in sender
    /\ sender' = {}
    /\ IF variant = Arc THEN ArcRelease ELSE UNCHANGED <<strong, torn, chan>>
    /\ UNCHANGED <<ch2Vars, variant, memVars, receiver, receiving_thread, round, pc,
                   arg, swapped, token, ret, ghostVars>>

\* -------------------------------------------------------------- is_ready
\* Mutant: is_ready loads the in-use marker instead of the ready flag.
LoadsInUse == in_use

\* `self.ready.load(Relaxed)`.
ReadyLoaded == ready

\* Mutant: is_ready peeks with swap(false) instead of load.
is_ready_swaps(t) ==
    /\ chan = "live"
    /\ pc[t] = "idle"
    /\ variant \in Owned => t \in receiver
    /\ variant \in Splittable => round > 0
    /\ ret' = [ret EXCEPT ![t] = Ret("is_ready", "ok", Uninit, ReadyLoaded)]
    /\ ready' = FALSE
    /\ UNCHANGED <<ch2Vars, variant, chan, message, slot, in_use, strong, handleVars,
                   pc, arg, swapped, token, ghostVars, torn>>

\* is_ready(&self): callable by any thread on the unsafe_channel Channel, and
\* by the thread holding the Receiver otherwise.  It changes nothing.
is_ready(t) ==
    /\ chan = "live"
    /\ pc[t] = "idle"
    /\ variant \in Owned => t \in receiver
    /\ variant \in Splittable => round > 0
    /\ ret' = [ret EXCEPT ![t] = Ret("is_ready", "ok", Uninit, ReadyLoaded)]
    /\ UNCHANGED <<ch2Vars, variant, chan, memVars, strong, handleVars, pc, arg,
                   swapped, token, ghostVars, torn>>

\* --------------------------------------------------------------- receive
\* Mutant: receive swaps true into the flag, so the flag is never cleared.
SwapLeavesTrue == TRUE

\* The value `self.ready.swap(false, Acquire)` leaves in the flag.
ReadySwapped == FALSE

\* Mutant: receive does not test the result of its swap and goes on to read.
NotReadyUnchecked(t) ==
    /\ pc' = [pc EXCEPT ![t] = "recv_read"]
    /\ UNCHANGED ret

\* What receive does when its swap returned false: the three non-blocking
\* modules panic (safe_channel unwinds through the drop of its Arc), ch5_6
\* calls thread::park().
NotReady(t) ==
    CASE variant = Directed ->
           /\ pc' = [pc EXCEPT ![t] = "recv_park"]
           /\ UNCHANGED ret
      [] variant = Arc ->
           /\ pc' = [pc EXCEPT ![t] = "recv_drop"]
           /\ ret' = [ret EXCEPT ![t] = Ret("receive", "panic", Uninit, ready)]
      [] OTHER -> Done(t, Ret("receive", "panic", Uninit, ready))

\* receive, first step: the acquire swap of the ready flag.  On the
\* ownership-typed modules the call moves the Receiver in.
receive_swap(t) ==
    /\ chan = "live"
    /\ pc[t] = "idle"
    /\ variant \in Owned => t \in receiver
    /\ receiver' = {}
    /\ swapped' = [swapped EXCEPT ![t] = ready]
    /\ ready' = ReadySwapped
    /\ taken' = (taken \/ ready)
    /\ IF ready
       THEN /\ pc' = [pc EXCEPT ![t] = "recv_read"]
            /\ UNCHANGED ret
       ELSE NotReady(t)
    /\ UNCHANGED <<ch2Vars, variant, chan, message, slot, in_use, strong, sender,
                   receiving_thread, round, arg, token, sent, stored, nWrite,
                   nRead, torn>>

\* thread::park() returns because the token is available, and consumes it.
park_return(t) ==
    /\ pc[t] = "recv_park"
    /\ token[t]
    /\ token' = [token EXCEPT ![t] = FALSE]
    /\ pc' = [pc EXCEPT ![t] = "recv_read"]
    /\ UNCHANGED <<ch2Vars, variant, chan, memVars, strong, handleVars, arg, swapped,
                   ret, ghostVars, torn>>

\* thread::park() "may also return spuriously, without consuming the token".
park_spurious(t) ==
    /\ pc[t] = "recv_park"
    /\ pc' = [pc EXCEPT ![t] = "recv_read"]
    /\ UNCHANGED <<ch2Vars, variant, chan, memVars, strong, handleVars, arg, swapped,
                   token, ret, ghostVars, torn>>

\* What assume_init_read can return: the cell's contents when it was written,
\* any bit pattern when it never was (reading an uninitialised cell is
\* undefined behaviour).
ReadOutcomes == IF slot = "Empty" THEN Values \cup {Uninit} ELSE {message}

\* Mutant: receive releases the in-use marker once it has read the message.
receive_read_releases(t) ==
    /\ pc[t] = "recv_read"
    /\ \E v \in ReadOutcomes :
         IF variant = Arc
         THEN /\ pc' = [pc EXCEPT ![t] = "recv_drop"]
              /\ ret' = [ret EXCEPT ![t] = Ret("receive", "ok", v, swapped[t])]
         ELSE Done(t, Ret("receive", "ok", v, swapped[t]))
    /\ slot' = IF slot = "Written" THEN "Consumed" ELSE slot
    /\ nRead' = nRead + 1
    /\ in_use' = FALSE
    /\ UNCHANGED <<ch2Vars, variant, chan, message, ready, strong, handleVars,
                   arg, swapped, token, sent, stored, taken, nWrite, torn>>

\* `(*self.message.get()).assume_init_read()`: ownership of the value moves
\* to the caller; the cell's bytes and the flags are left as they are.
receive_read(t) ==
    /\ pc[t] = "recv_read"
    /\ \E v \in ReadOutcomes :
         IF variant = Arc
         THEN /\ pc' = [pc EXCEPT ![t] = "recv_drop"]
              /\ ret' = [ret EXCEPT ![t] = Ret("receive", "ok", v, swapped[t])]
         ELSE Done(t, Ret("receive", "ok", v, swapped[t]))
    /\ slot' = IF slot = "Written" THEN "Consumed" ELSE slot
    /\ nRead' = nRead + 1
    /\ UNCHANGED <<ch2Vars, variant, chan, message, in_use, ready, strong, handleVars,
                   arg, swapped, token, sent, stored, taken, nWrite, torn>>

\* safe_channel: receive returns or unwinds and its `self` (the Arc) is
\* dropped.
recv_drop(t) ==
    /\ pc[t] = "recv_drop"
    /\ ArcRelease
    /\ pc' = [pc EXCEPT ![t] = IF ret[t].kind = "panic" THEN "panicked"
                                                        ELSE "idle"]
    /\ UNCHANGED <<ch2Vars, variant, memVars, handleVars, arg, swapped, token, ret,
                   ghostVars>>

\* A Receiver that goes out of scope unused.
drop_receiver(t) ==
    /\ variant \in Owned
    /\ chan = "live"
    /\ pc[t] = "idle"
    /\ t \in receiver
    /\ receiver' = {}
    /\ IF variant = Arc THEN ArcRelease ELSE UNCHANGED <<strong, torn, chan>>
    /\ UNCHANGED <<ch2Vars, variant, memVars, sender, receiving_thread, round, pc,
                   arg, swapped, token, ret, ghostVars>>

\* ------------------------------------------------------------------ Next
Next ==
    \/ \E t \in Threads, v \in Values : send_claim(t, v)
    \/ \E t \in Threads, v \in Values : send_call(t, v)
    \/ \E t \in Threads : send_write(t)
    \/ \E t \in Threads : send_store(t)
    \/ \E t \in Threads : send_unpark(t)
    \/ \E t \in Threads : send_drop(t)
    \/ \E t \in Threads : drop_sender(t)
    \/ \E t \in Threads : is_ready(t)
    \/ \E t \in Threads : receive_swap(t)
    \/ \E t \in Threads : park_return(t)
    \/ \E t \in Threads : park_spurious(t)
    \/ \E t \in Threads : receive_read(t)
    \/ \E t \in Threads : recv_drop(t)
    \/ \E t \in Threads : drop_receiver(t)
    \/ split
    \/ Teardown

Spec == Init /\ [][Next]_vars

\* ---------------------------------------------------------------- claims
Received(t) == ret[t].op = "receive" /\ ret[t].kind = "ok"
ReceivePanicked(t) == ret[t].op = "receive" /\ ret[t].kind = "panic"
SendPanicked(t) == ret[t].op = "send" /\ ret[t].kind = "panic"

\* C1: round trip, in every variant.  A receive whose swap found the message
\* of a completed send returns exactly the value that was sent, read from a
\* Written slot; as long as a completed send has not been received the
\* message is there to be received; and the slot is read at most once per
\* send, so the value is delivered exactly once.
C1_RoundTrip ==
    /\ \A t \in Threads :
         (Received(t) /\ ret[t].flag) =>
            /\ sent \in Values
            /\ ret[t].val = sent
            /\ ret[t].slot = "Written"
    /\ (stored /\ ~taken /\ nRead = 0) =>
            ready /\ slot = "Written" /\ message = sent
    /\ nRead <= 1

C1_Witness ==
    /\ variant = Directed
    /\ round = 2
    /\ \E t \in Threads :
         Received(t) /\ ret[t].flag /\ ret[t].val = sent /\ sent = 2

\* C2: ch5_6, no lost wakeup.  Every receive that has returned returned the
\* value that was sent, read from a slot that had been written; and a
\* receiver still parked after send has completed has its wake-up pending.
C2_NoLostWakeup ==
    variant = Directed =>
      \A t \in Threads :
        /\ Received(t) => ret[t].slot = "Written" /\ ret[t].val = sent
        /\ (pc[t] = "recv_park" /\ stored /\ \A u \in Threads : pc[u] = "idle"
              \/ pc[u] = "recv_park") => token[t]

\* C3: ch5_6, spurious wake-up.  Whenever receive is about to read the slot,
\* the receiver has observed the ready flag true and the slot is Written.
C3_ReadOnlyWhenReady ==
    variant = Directed =>
      \A t \in Threads :
        pc[t] = "recv_read" => swapped[t] /\ slot = "Written"

\* C4: runtime-checked Channel.  A send on an instance that is already in
\* use panics and writes nothing: the slot is written at most once, while it
\* holds a message that is the first message, and a receive that returns
\* returns the first message.
C4_SecondSendPanics ==
    variant = Unsafe =>
      /\ nWrite <= 1
      /\ slot = "Written" => message = sent
      /\ \A t \in Threads :
           /\ SendPanicked(t) => in_use
           /\ Received(t) => ret[t].val = sent /\ sent \in Values

C4_Witness ==
    /\ variant = Unsafe
    /\ \E t, u \in Threads :
         /\ SendPanicked(t) /\ ret[t].slot = "Written"
         /\ Received(u) /\ ret[u].val = sent

\* C5: non-blocking variants.  A receive that finds the ready flag false
\* panics and never reads the slot: only a receive whose swap returned true
\* reaches the read, the slot is then Written, and no receive returns a
\* value from an Empty slot.
C5_PrematureReceivePanics ==
    variant \in {Unsafe, Arc, Borrowed} =>
      \A t \in Threads :
        /\ pc[t] # "recv_park"
        /\ pc[t] = "recv_read" => swapped[t] /\ slot = "Written"
        /\ Received(t) => ret[t].flag /\ ret[t].slot = "Written"
        /\ ReceivePanicked(t) => ~ret[t].flag

\* A receive panicked while a send was between its slot write and its ready
\* store.
C5_Witness ==
    /\ variant \in {Unsafe, Arc, Borrowed}
    /\ \E t \in Threads :
         ReceivePanicked(t) /\ ret[t].slot = "Written" /\ ~ret[t].stored

\* C6: teardown.  Every run of Channel::drop destroys the payload exactly
\* once when the slot is Written and not at all when it is Empty.
C6_TeardownDestroys ==
    \A i \in DOMAIN torn :
      /\ torn[i].slot = "Written" => torn[i].destroyed = 1
      /\ torn[i].slot = "Empty" => torn[i].destroyed = 0

C6_Witness ==
    /\ chan = "dropped"
    /\ \E i \in DOMAIN torn :
         torn[i].slot = "Written" /\ torn[i].destroyed = 1

\* C7: runtime-checked Channel, no duplicate delivery.  The slot is read at
\* most once, at most one receive returns and it returns the message, and a
\* receive that panicked although send had completed lost to one that took
\* the message.
C7_NoDuplicateDelivery ==
    variant = Unsafe =>
      /\ nRead <= 1
      /\ Cardinality({t \in Threads : Received(t)}) <= 1
      /\ \A t \in Threads :
           /\ Received(t) => ret[t].val = sent /\ nRead = 1
           /\ (ReceivePanicked(t) /\ ret[t].stored) =>
                 /\ taken
                 /\ nRead = 1 \/ \E u \in Threads : pc[u] = "recv_read"

C7_Witness ==
    /\ variant = Unsafe
    /\ \E t, u \in Threads :
         /\ Received(t) /\ ret[t].val = sent
         /\ ReceivePanicked(u) /\ ret[u].stored

\* C8: is_ready returns false whenever send's ready store has not happened,
\* and true whenever it has and no receive has taken the message yet.
C8_IsReady ==
    \A t \in Threads :
      ret[t].op = "is_ready" =>
        /\ ~ret[t].stored => ~ret[t].flag
        /\ (ret[t].stored /\ ~ret[t].taken) => ret[t].flag

\* One poll fell between the slot write and the ready store, another came
\* after the store.
C8_Witness ==
    \E t, u \in Threads :
      /\ ret[t].op = "is_ready" /\ ret[t].flag /\ ret[t].stored
      /\ ret[u].op = "is_ready" /\ ~ret[u].flag /\ ret[u].slot = "Written"

\* C9: borrowed-backing reuse.  After a round trip in round one, the second
\* split leaves the old value alone and yields a fresh channel (flag false,
\* slot Empty), and a receive of round two returns the value sent in round
\* two, read from a Written slot.
C9_ReuseIsFresh ==
    (variant \in Splittable /\ round = 2 /\ torn[2].slot = "Consumed") =>
      /\ torn[2].destroyed = 0
      /\ nWrite = 0 => ~ready /\ slot = "Empty" /\ message = Uninit
      /\ \A t \in Threads :
           Received(t) => ret[t].val = sent /\ ret[t].slot = "Written"

\* C10: once receive has handed the value out (slot Consumed), no run of
\* Channel::drop destroys it.
C10_ConsumedNotDestroyed ==
    \A i \in DOMAIN torn :
      torn[i].slot = "Consumed" => torn[i].destroyed = 0

\* C11: whenever the ready flag is true the slot is Written: no state shows
\* ready = true over an Empty or a Consumed slot.
C11_ReadyImpliesWritten ==
    ready => slot = "Written"

\* C12: runtime-checked Channel under concurrent senders.  At most one
\* thread is ever past the claim, the slot is written at most once, and a
\* send that panicked lost the claim to a send that has written or is about
\* to write.
C12_OneSenderClaims ==
    variant = Unsafe =>
      /\ nWrite <= 1
      /\ Cardinality({t \in Threads : pc[t] \in {"send_write", "send_store"}})
           <= 1
      /\ \A t \in Threads :
           /\ pc[t] = "send_write" => nWrite = 0 /\ slot = "Empty"
           /\ pc[t] = "send_store" => nWrite = 1
           /\ SendPanicked(t) =>
                /\ in_use
                /\ ret[t].slot = slot \/ nWrite = 1
                /\ nWrite = 1 \/ \E u \in Threads \ {t} : pc[u] = "send_write"

\* One send panicked while the other was between its claim and its write,
\* and the other one then wrote the slot.
C12_Witness ==
    /\ variant = Unsafe
    /\ nWrite = 1
    /\ \E t \in Threads : SendPanicked(t) /\ ret[t].slot = "Empty"

\* C13: ch5_6 send writes the slot, then stores ready, then unparks.  When
\* send is about to unpark or has unparked, its ready store has happened and
\* the slot was written before it; in the first round, where no earlier send
\* can have left a token, an available token means ready was stored.
C13_UnparkAfterStore ==
    variant = Directed =>
      /\ \A t \in Threads :
           /\ pc[t] = "send_store" => nWrite = 1 /\ ~stored
           /\ pc[t] = "send_unpark" => nWrite = 1 /\ stored
           /\ (ret[t].op = "send" /\ ret[t].kind = "ok") =>
                ret[t].stored /\ stored /\ nWrite = 1
      /\ (round <= 1 /\ token[receiving_thread]) => stored

C13_Witness ==
    /\ variant = Directed
    /\ token[receiving_thread]
    /\ \E t \in Threads : ret[t].op = "send" /\ ret[t].kind = "ok"
    /\ pc[receiving_thread] = "recv_park"

\* C14: ch5_6, when no send has begun on the pair, a receiver that called
\* receive has not returned and has not read (and is not about to read) the
\* slot.
C14_BlocksWithoutSend ==
    (variant = Directed /\ nWrite = 0
        /\ \A u \in Threads : pc[u] # "send_write") =>
      /\ nRead = 0
      /\ \A t \in Threads : pc[t] # "recv_read" /\ ~Received(t)

\* A step of send's ready store, of receive's swap, of is_ready, and a step
\* that stays on the same channel instance (split makes a new one).
StoreStep(t) == pc[t] = "send_store" /\ pc'[t] # "send_store"
SwapStep(t) == pc[t] = "idle" /\ swapped'[t] = ready
                 /\ pc'[t] \in {"recv_read", "recv_park", "recv_drop", "panicked"}
IsReadyStep(t) == ret'[t].op = "is_ready" /\ ret'[t] # ret[t]
SameInstance == round' = round /\ chan' = chan

\* C15: on one channel instance the ready flag goes false -> true at most
\* once and only by the ready store that ends send's flag steps, and goes
\* true -> false only by receive's swap.
C15_ReadyTransitions ==
    [][SameInstance =>
         /\ (~ready /\ ready') =>
              /\ ~stored /\ stored'
              /\ \E t \in Threads : StoreStep(t) /\ nWrite >= 1
         /\ (ready /\ ~ready') =>
              \E t \in Threads : SwapStep(t) /\ pc'[t] = "recv_read"]_vars

C15_Witness ==
    /\ stored /\ taken /\ ~ready
    /\ variant = Borrowed
    /\ \E t \in Threads : ret[t].op = "is_ready" /\ ret[t].flag

\* C16: is_ready has no side effects.  A step of is_ready changes neither
\* the ready flag, the in-use marker, the slot or its contents, nor any
\* handle, token or position of a thread.
C16_IsReadyPure ==
    [][\A t \in Threads :
         IsReadyStep(t) =>
           UNCHANGED <<memVars, strong, handleVars, chan, pc, arg, swapped,
                       token, ghostVars, torn>>]_vars

\* is_ready was answered true and the message was then received.
C16_Witness ==
    \E t, u \in Threads :
      /\ ret[t].op = "is_ready" /\ ret[t].flag
      /\ Received(u) /\ ret[u].val = sent

\* C18: runtime-checked Channel.  Once a send has claimed the instance the
\* in-use marker stays set, through the write, the receive and after, so
\* the slot is written at most once over the lifetime, and a send that
\* comes after the message was received panics without writing.
C18_InUseNeverCleared ==
    variant = Unsafe =>
      /\ nWrite <= 1
      /\ (nWrite >= 1 \/ \E t \in Threads :
                           \/ pc[t] \in {"send_write", "send_store"}
                           \/ SendPanicked(t)) => in_use
      /\ slot # "Empty" => in_use
      /\ \A t \in Threads :
           (pc[t] = "send_write") => slot = "Empty" /\ nRead = 0

\* A send panicked after the first message had been received.
C18_Witness ==
    /\ variant = Unsafe
    /\ nWrite = 1
    /\ slot = "Consumed"
    /\ \E t \in Threads : SendPanicked(t) /\ ret[t].slot = "Consumed"

\* ------------------------------------------- run1, run, run3 (demo protocol)
\* The thread started by s.spawn; Main is the consumer.
Spawned == 2

DemoVariants == {Unsafe, Arc, Borrowed}

\* run1 starts from Channel::new(), run from channel() with the Sender moved
\* into the spawned closure, run3 from Channel::new() before its split.
DemoInit ==
    /\ Init
    /\ variant \in DemoVariants
    /\ variant = Arc => sender = {Spawned} /\ receiver = {Main}

\* run3: `let (sender, receiver) = channel.split();`, the Sender then moves
\* into the spawned closure.
demo_split ==
    /\ variant = Borrowed
    /\ round = 0
    /\ split
    /\ sender' = {Spawned}
    /\ receiver' = {Main}

\* The spawned closure: `channel.send("hello world!")` / `sender.send(..)`.
demo_send ==
    /\ ret[Spawned].op = "none"
    /\ variant = Borrowed => round > 0
    /\ \E v \in Values : send_claim(Spawned, v) \/ send_call(Spawned, v)

\* Mutant: the spawned closure ends without `t.unpark()`.
demo_unpark_lost ==
    /\ pc[Spawned] = "idle"
    /\ ret[Spawned].op = "send" /\ ret[Spawned].kind = "ok"
    /\ pc' = [pc EXCEPT ![Spawned] = "exited"]
    /\ UNCHANGED <<ch2Vars, variant, chan, memVars, strong, handleVars, arg, swapped,
                   token, ret, ghostVars, torn>>

\* The spawned closure: `t.unpark()` after send has returned, then the
\* closure ends.
demo_unpark ==
    /\ pc[Spawned] = "idle"
    /\ ret[Spawned].op = "send" /\ ret[Spawned].kind = "ok"
    /\ token' = [token EXCEPT ![Main] = TRUE]
    /\ pc' = [pc EXCEPT ![Spawned] = "exited"]
    /\ UNCHANGED <<ch2Vars, variant, chan, memVars, strong, handleVars, arg, swapped,
                   ret, ghostVars, torn>>

\* `while !channel.is_ready()`: the loop condition is evaluated.
demo_poll ==
    /\ ret[Main].op = "none"
    /\ is_ready(Main)

\* The loop body: is_ready was false, `thread::park()` is called.
demo_park ==
    /\ pc[Main] = "idle"
    /\ ret[Main].op = "is_ready" /\ ~ret[Main].flag
    /\ pc' = [pc EXCEPT ![Main] = "loop_park"]
    /\ UNCHANGED <<ch2Vars, variant, chan, memVars, strong, handleVars, arg, swapped,
                   token, ret, ghostVars, torn>>

\* park returns on the token and the loop goes back to its condition.
demo_park_return ==
    /\ pc[Main] = "loop_park"
    /\ token[Main]
    /\ token' = [token EXCEPT ![Main] = FALSE]
    /\ pc' = [pc EXCEPT ![Main] = "idle"]
    /\ ret' = [ret EXCEPT ![Main] = NoRet]
    /\ UNCHANGED <<ch2Vars, variant, chan, memVars, strong, handleVars, arg, swapped,
                   ghostVars, torn>>

\* park returns spuriously and the loop goes back to its condition.
demo_park_spurious ==
    /\ pc[Main] = "loop_park"
    /\ pc' = [pc EXCEPT ![Main] = "idle"]
    /\ ret' = [ret EXCEPT ![Main] = NoRet]
    /\ UNCHANGED <<ch2Vars, variant, chan, memVars, strong, handleVars, arg, swapped,
                   token, ghostVars, torn>>

\* The loop has ended (is_ready was true): `channel.receive()`.
demo_receive ==
    /\ ret[Main].op = "is_ready" /\ ret[Main].flag
    /\ receive_swap(Main)

\* The end of thread::scope and of the function: the spawned thread is
\* joined and the Channel of run1 / run3 is dropped.
demo_end ==
    /\ pc[Spawned] = "exited"
    /\ ret[Main].op = "receive"
    /\ Teardown

ProducerStep ==
    \/ demo_send
    \/ send_write(Spawned)
    \/ send_store(Spawned)
    \/ send_drop(Spawned)
    \/ demo_unpark

ConsumerStep ==
    \/ demo_split
    \/ demo_poll
    \/ demo_park
    \/ demo_park_return
    \/ demo_receive
    \/ receive_read(Main)
    \/ recv_drop(Main)
    \/ demo_end

DemoNext ==
    \/ ProducerStep
    \/ ConsumerStep
    \/ demo_park_spurious

\* Both threads are scheduled fairly; a spurious return of park is possible
\* but never owed.
SpecDemo ==
    /\ DemoInit
    /\ [][DemoNext]_vars
    /\ WF_vars(ProducerStep)
    /\ WF_vars(ConsumerStep)

\* C17: run1, run and run3.  The consumer's receive never panics, it reads a
\* Written slot and returns the message that was sent; and under fair
\* scheduling the consumer's loop exits and its receive returns, whether the
\* unpark came before or after the consumer parked.
C17_DemoDelivers ==
    /\ [](\A t \in Threads :
            /\ ~ReceivePanicked(t)
            /\ pc[t] = "recv_read" => swapped[t] /\ slot = "Written"
            /\ Received(t) => ret[t].val = sent /\ ret[t].slot = "Written")
    /\ <>(Received(Main) /\ pc[Main] = "idle")

\* The message was received although the unpark found the consumer not
\* parked (its token is still there).
C17_Witness ==
    /\ Received(Main) /\ ret[Main].val = sent
    /\ pc[Spawned] = "exited"
    /\ token[Main]

\* ------------------------------------------------- ch2::atomic::example1
\* Lines the user may type: the two commands and two that are neither.
Lines == {"help", "stop", "quit", ""}
EndOfInput == "<EOF>"

\* `println!("commands: help, stop")` and `println!("unknown command: {cmd:?}")`.
Usage == <<"commands: help, stop">>
Unknown(cmd) == <<"unknown command: ", cmd>>

\* example1 after thread::spawn: the flag is false, the background thread
\* spins, the main thread is at the head of its input loop.
StopInit ==
    /\ ChanInit /\ variant = Unsafe
    /\ CountIdle
    /\ STOP = FALSE
    /\ loop = "reading"
    /\ background_thread = "spinning"
    /\ line = ""
    /\ out = <<>>

\* One iteration of `for line in std::io::stdin().lines()`: the match on the
\* line prints for "help" and for an unknown command, and breaks for "stop".
read_line(cmd) ==
    /\ loop = "reading"
    /\ cmd # "stop" => Len(out) < MaxLines
    /\ line' = cmd
    /\ CASE cmd = "help" -> out' = Append(out, Usage) /\ loop' = "reading"
         [] cmd = "stop" -> out' = out /\ loop' = "store"
         [] OTHER -> out' = Append(out, Unknown(cmd)) /\ loop' = "reading"
    /\ UNCHANGED <<chanVars, countVars, STOP, background_thread>>

\* stdin is at its end: the for loop is over.
end_of_input ==
    /\ loop = "reading"
    /\ line' = EndOfInput
    /\ loop' = "store"
    /\ UNCHANGED <<chanVars, countVars, STOP, background_thread, out>>

\* Mutant: the flag is stored with the value it already has.
StopStoredFalse == FALSE

\* The value of `STOP.store(true, Relaxed)`.
StopStored == TRUE

\* `STOP.store(true, Relaxed)` after the loop.
stop_store ==
    /\ loop = "store"
    /\ STOP' = StopStored
    /\ loop' = "join"
    /\ UNCHANGED <<chanVars, countVars, background_thread, line, out>>

\* One iteration of `while !STOP.load(Relaxed) {}` in the background thread.
spin ==
    /\ background_thread = "spinning"
    /\ background_thread' = IF STOP THEN "exited" ELSE "spinning"
    /\ UNCHANGED <<chanVars, countVars, STOP, loop, line, out>>

\* `background_thread.join().unwrap()` returns once the thread has ended.
join ==
    /\ loop = "join"
    /\ background_thread = "exited"
    /\ loop' = "done"
    /\ UNCHANGED <<chanVars, countVars, STOP, background_thread, line, out>>

StopNext ==
    \/ \E cmd \in Lines : read_line(cmd)
    \/ end_of_input
    \/ stop_store
    \/ spin
    \/ join

\* The main thread runs on once its loop is over, and the background thread
\* is scheduled; nothing obliges the user to type.
SpecStop ==
    /\ StopInit
    /\ [][StopNext]_vars
    /\ WF_vars(stop_store \/ join)
    /\ WF_vars(spin)

\* C19: example1.  The stop flag is false while the input loop runs; "help"
\* and unknown commands print their line, leave the flag false and keep the
\* loop running; only "stop" or the end of input ends the loop; and once the
\* loop has ended the flag is set, the background thread ends and the join
\* completes.
C19_StopFlag ==
    /\ [](loop = "reading" => ~STOP /\ background_thread = "spinning")
    /\ [][(loop = "reading" /\ line' \notin {"stop", EndOfInput}) =>
            /\ loop' = "reading"
            /\ ~STOP'
            /\ out' = Append(out, IF line' = "help" THEN Usage
                                                   ELSE Unknown(line'))]_vars
    /\ [][(loop = "reading" /\ loop' # "reading") =>
            /\ line' \in {"stop", EndOfInput}
            /\ loop' = "store"
            /\ out' = out]_vars
    /\ [](loop \in {"join", "done"} => STOP)
    /\ (loop = "store") ~> (loop = "done" /\ STOP /\ background_thread = "exited")

C19_Witness ==
    /\ loop = "done"
    /\ line = "stop"
    /\ background_thread = "exited"
    /\ out = <<Usage, Unknown("quit")>>

\* ------------------------------------------------- ch2::atomic::example4
\* `for t in 0..4`
NumWorkers == 4
Workers == 1 .. NumWorkers

\* The count the monitor waits for: 100 in the source, four threads of 25.
Total == NumWorkers * ItemsPerThread

RECURSIVE SumTo(_, _)
SumTo(f, k) == IF k = 0 THEN 0 ELSE f[k] + SumTo(f, k - 1)

\* example4 inside thread::scope once the four threads are spawned: the
\* counter is zero, no item is processed, the main thread is at its load.
CountInit ==
    /\ ChanInit /\ variant = Unsafe
    /\ StopIdle
    /\ num_dome = 0
    /\ items = [w \in Workers |-> 0]
    /\ monitor = "load"
    /\ n = 0

\* Mutant: the progress store of example2, `store(i + 1)`, in place of the
\* read-modify-write.
StoredIndex(w) == items[w] + 1

\* The counter after `num_dome.fetch_add(1, Relaxed)`.
FetchAdd(w) == num_dome + 1

\* One iteration of `for i in 0..25`: process_item(i), then the fetch_add.
worker_add(w) ==
    /\ items[w] < ItemsPerThread
    /\ num_dome' = FetchAdd(w)
    /\ items' = [items EXCEPT ![w] = @ + 1]
    /\ UNCHANGED <<chanVars, stopVars, monitor, n>>

\* `let n = num_dome.load(Relaxed); if n == 100 { break; }`
monitor_load ==
    /\ monitor = "load"
    /\ n' = num_dome
    /\ monitor' = IF num_dome = Total THEN "exited" ELSE "print"
    /\ UNCHANGED <<chanVars, stopVars, num_dome, items>>

\* `println!("Working.. {n}/100 done"); thread::sleep(..)`, then loop again.
monitor_print ==
    /\ monitor = "print"
    /\ monitor' = "load"
    /\ UNCHANGED <<chanVars, stopVars, num_dome, items, n>>

CountNext ==
    \/ \E w \in Workers : worker_add(w)
    \/ monitor_load
    \/ monitor_print

\* Every spawned thread and the main thread are scheduled.
SpecCount ==
    /\ CountInit
    /\ [][CountNext]_vars
    /\ \A w \in Workers : WF_vars(worker_add(w))
    /\ WF_vars(monitor_load \/ monitor_print)

\* C20: example4.  No increment is lost: the counter equals the number of
\* increments completed by the four threads, never exceeds the total, never
\* decreases, and eventually equals the total, at which point the monitor
\* loop ends.
C20_NoLostUpdate ==
    /\ [](/\ num_dome = SumTo(items, NumWorkers)
          /\ num_dome <= Total
          /\ n <= num_dome
          /\ monitor = "exited" => n = Total)
    /\ [][num_dome' >= num_dome]_vars
    /\ <>[](monitor = "exited" /\ num_dome = Total)

C20_Witness ==
    /\ monitor = "exited"
    /\ num_dome = Total
    /\ \A w \in Workers : items[w] = ItemsPerThread

====
